---- MODULE Spec2Model ----
(***************************************************************************)
(* Authorization / ownership decision layer of the NestJS CRUD API         *)
(* (auth, cats, breeds, users): JWT token codec, AuthGuard, RolesGuard,    *)
(* validateOwnership and the resource services over a soft-deleting store. *)
(* One action is one HTTP request handled from the guards to the store.    *)
(***************************************************************************)
EXTENDS Integers, Sequences, FiniteSets, TLC

\* ------------------------------------------------------------------ bounds
MaxCats == 1
MaxTokens == 3
TickStep == 43200
MaxTicks == 2

\* ------------------------------------------------------- program constants
ExpiresIn == 86400

USER == "user"
ADMIN == "admin"
Role == {USER, ADMIN}

NULL == -1

Secret == "jwtConstants.secret"
WrongSecret == "not-the-secret"

\* HTTP outcomes, named by the exception the handler throws
OK == "OK"
Unauthorized == "UnauthorizedException"
Forbidden == "ForbiddenException"
NotFound == "NotFoundException"
BadRequest == "BadRequestException"
Conflict == "ConflictException"
InvalidCredentials == "InvalidCredentials"

\* ------------------------------------------------------------ input domains
EmailA == "a@x.com"
EmailB == "b@x.com"
EmailAdmin == "admin@x.com"
Emails == {EmailA, EmailB, EmailAdmin}
LoginDtos == {[email |-> EmailA, password |-> "pw-a"],
              [email |-> EmailB, password |-> "pw-b"],
              [email |-> EmailAdmin, password |-> "pw-admin"],
              [email |-> EmailA, password |-> "pw-b"],
              [email |-> EmailAdmin, password |-> "pw-a"]}
RegisterA == [email |-> EmailA, password |-> "pw-a"]
RegisterB == [email |-> EmailB, password |-> "pw-b"]
RegisterDtos == {RegisterA, RegisterB}
BreedNames == {"Persa"}
CreateCatDtos == {[name |-> "Michi", age |-> 3, breed |-> "Persa"]}
UpdateCatDtos == {[name |-> "Tom"]}
CatIds == 1..MaxCats

VARIABLES users, cats, breeds, issued, now, req, resp

vars == <<users, cats, breeds, issued, now, req, resp>>

\* ------------------------------------------------------------- persistence
\* TypeORM leaves out the rows whose deletedAt is set (the mutant_ operators
\* are the faults the properties below are checked to detect)
mutant_findOneByEmail(email) ==
    IF email \in DOMAIN users THEN {users[email]} ELSE {}

findOneByEmail(email) ==
    IF email \in DOMAIN users /\ users[email].deletedAt = NULL
    THEN {users[email]} ELSE {}

find(rows) == {id \in DOMAIN rows : rows[id].deletedAt = NULL}

findOneBy(rows, id) == IF id \in find(rows) THEN {rows[id]} ELSE {}

mutant_softDelete(rows, id, t) == [i \in DOMAIN rows \ {id} |-> rows[i]]

softDelete(rows, id, t) == [rows EXCEPT ![id].deletedAt = t]

\* ------------------------------------------------------------------ bcrypt
hash(password) == <<"bcrypt", password>>

mutant_compare(password, hashed) == TRUE

compare(password, hashed) == hashed = hash(password)

\* ------------------------------------------------------------- token codec
sign(payload, secret) ==
    <<payload.email, payload.role, payload.iat, payload.exp, secret>>

mutant_signAsync(user, t) ==
    LET payload == [email |-> user.email, role |-> USER,
                    iat |-> t, exp |-> t + ExpiresIn]
    IN  [payload |-> payload, signature |-> sign(payload, Secret)]

signAsync(user, t) ==
    LET payload == [email |-> user.email, role |-> user.role,
                    iat |-> t, exp |-> t + ExpiresIn]
    IN  [payload |-> payload, signature |-> sign(payload, Secret)]

NoPayload == [email |-> "", role |-> "", iat |-> 0, exp |-> 0]
NoToken == [payload |-> NoPayload, signature |-> <<>>]

mutant_verifyAsync_ignoreExpiration(token, t) ==
    IF token.signature # sign(token.payload, Secret)
    THEN [ok |-> FALSE, payload |-> NoPayload]
    ELSE [ok |-> TRUE, payload |-> token.payload]

mutant_verifyAsync_decodeOnly(token, t) ==
    IF t >= token.payload.exp
    THEN [ok |-> FALSE, payload |-> NoPayload]
    ELSE [ok |-> TRUE, payload |-> token.payload]

verifyAsync(token, t) ==
    IF token.signature # sign(token.payload, Secret)
    THEN [ok |-> FALSE, payload |-> NoPayload]
    ELSE IF t >= token.payload.exp
    THEN [ok |-> FALSE, payload |-> NoPayload]
    ELSE [ok |-> TRUE, payload |-> token.payload]

\* what a client can put in the Authorization header: nothing, a token it was
\* issued, a token whose payload was altered after signing, or a token signed
\* with another secret
Tamper(token) == [token EXCEPT !.payload.role = ADMIN]
Resign(token) == [token EXCEPT !.signature = sign(token.payload, WrongSecret)]
AlteredToken == Tamper(signAsync([email |-> EmailB, role |-> USER], 0))
WrongSecretToken == Resign(signAsync([email |-> EmailAdmin, role |-> ADMIN], 0))
NoHeader == [type |-> "", token |-> NoToken]
Bearer(token) == [type |-> "Bearer", token |-> token]
tokens == {e.token : e \in issued}
Headers ==
    {NoHeader, Bearer(AlteredToken), Bearer(WrongSecretToken)}
    \cup {Bearer(t) : t \in tokens}

\* ------------------------------------------------------------------ guards
NoUser == [email |-> "", role |-> ""]
Deny == [ok |-> FALSE, user |-> NoUser]

extractTokenFromHeader(header) ==
    IF header.type = "Bearer" THEN header.token ELSE NoToken

AuthGuard(header) ==
    LET token == extractTokenFromHeader(header) IN
    IF token = NoToken THEN Deny
    ELSE LET v == verifyAsync(token, now) IN
         IF ~v.ok THEN Deny
         ELSE IF findOneByEmail(v.payload.email) = {} THEN Deny
         ELSE [ok |-> TRUE,
               user |-> [email |-> v.payload.email, role |-> v.payload.role]]

mutant_RolesGuard(user, required) == user.role = required

RolesGuard(user, required) ==
    user.role = ADMIN \/ user.role = required

\* @Auth(role): AuthGuard, then RolesGuard
Auth(header, required) ==
    LET a == AuthGuard(header) IN
    IF ~a.ok THEN [status |-> Unauthorized, user |-> NoUser]
    ELSE IF ~RolesGuard(a.user, required)
    THEN [status |-> Forbidden, user |-> a.user]
    ELSE [status |-> OK, user |-> a.user]

validateOwnership(cat, user) ==
    ~(user.role # ADMIN /\ cat.userEmail # user.email)

\* --------------------------------------------------------------- responses
Request(op, header, id, email, password) ==
    [op |-> op, header |-> header, id |-> id, email |-> email,
     password |-> password]
Response(status, user, body) == [status |-> status, user |-> user, body |-> body]

nextId(rows) ==
    IF DOMAIN rows = {} THEN 1
    ELSE (CHOOSE i \in DOMAIN rows : \A j \in DOMAIN rows : j <= i) + 1

\* partial field merge of an update DTO into a row
merge(row, dto) ==
    [f \in DOMAIN row |-> IF f \in DOMAIN dto THEN dto[f] ELSE row[f]]

\* the database at start: the administrator account and nothing else
Init ==
    /\ users = [e \in {EmailAdmin} |->
                   [email |-> e, password |-> hash("pw-admin"),
                    role |-> ADMIN, deletedAt |-> NULL]]
    /\ cats = << >>
    /\ breeds = {}
    /\ issued = {}
    /\ now = 0
    /\ req = Request("", NoHeader, 0, "", "")
    /\ resp = Response(OK, NoUser, {})

\* ------------------------------------------------------------------- auth
\* POST /auth/register
Register(dto) ==
    /\ req' = Request("auth.register", NoHeader, 0, dto.email, "")
    /\ IF findOneByEmail(dto.email) # {}
       THEN /\ resp' = Response(BadRequest, NoUser, {})
            /\ UNCHANGED users
       ELSE IF dto.email \in DOMAIN users
       THEN /\ resp' = Response(Conflict, NoUser, {})
            /\ UNCHANGED users
       ELSE /\ users' = users @@ (dto.email :>
                          [email |-> dto.email, password |-> hash(dto.password),
                           role |-> USER, deletedAt |-> NULL])
            /\ resp' = Response(OK, NoUser, {})
    /\ UNCHANGED <<cats, breeds, issued, now>>

\* POST /auth/login
Login(dto) ==
    LET found == findOneByEmail(dto.email) IN
    /\ req' = Request("auth.login", NoHeader, 0, dto.email, dto.password)
    /\ IF found = {}
       THEN /\ resp' = Response(InvalidCredentials, NoUser, {})
            /\ UNCHANGED issued
       ELSE LET user == CHOOSE u \in found : TRUE IN
            IF ~compare(dto.password, user.password)
            THEN /\ resp' = Response(InvalidCredentials, NoUser, {})
                 /\ UNCHANGED issued
            ELSE LET principal == [email |-> user.email, role |-> user.role]
                     entry == [user |-> principal,
                               token |-> signAsync(principal, now)]
                 IN  /\ Cardinality(issued \cup {entry}) <= MaxTokens
                     /\ issued' = issued \cup {entry}
                     /\ resp' = Response(OK, principal, {})
    /\ UNCHANGED <<users, cats, breeds, now>>

\* GET /auth/profile, @Auth(Role.USER)
Profile(header) ==
    LET a == Auth(header, USER) IN
    /\ req' = Request("auth.profile", header, 0, "", "")
    /\ resp' = Response(a.status, a.user, {})
    /\ UNCHANGED <<users, cats, breeds, issued, now>>

\* ------------------------------------------------------------------- cats
\* POST /cats, @Auth(Role.USER)
CatsCreate(header, dto) ==
    LET a == Auth(header, USER) IN
    /\ Cardinality(DOMAIN cats) < MaxCats
    /\ req' = Request("cats.create", header, 0, "", "")
    /\ IF a.status # OK
       THEN /\ resp' = Response(a.status, a.user, {})
            /\ UNCHANGED cats
       ELSE IF dto.breed \notin breeds
       THEN /\ resp' = Response(BadRequest, a.user, {})
            /\ UNCHANGED cats
       ELSE LET id == nextId(cats) IN
            /\ cats' = cats @@ (id :>
                          [name |-> dto.name, age |-> dto.age, breed |-> dto.breed,
                           userEmail |-> a.user.email, deletedAt |-> NULL])
            /\ resp' = Response(OK, a.user, {id})
    /\ UNCHANGED <<users, breeds, issued, now>>

\* GET /cats, @Auth(Role.USER)
CatsFindAll(header) ==
    LET a == Auth(header, USER) IN
    /\ req' = Request("cats.findAll", header, 0, "", "")
    /\ resp' = Response(a.status, a.user, IF a.status = OK THEN find(cats) ELSE {})
    /\ UNCHANGED <<users, cats, breeds, issued, now>>

\* GET /cats/:id, @Auth(Role.USER)
CatsFindOne(header, id) ==
    LET a == Auth(header, USER) IN
    /\ req' = Request("cats.findOne", header, id, "", "")
    /\ resp' = IF a.status # OK THEN Response(a.status, a.user, {})
               ELSE IF findOneBy(cats, id) = {} THEN Response(NotFound, a.user, {})
               ELSE Response(OK, a.user, {id})
    /\ UNCHANGED <<users, cats, breeds, issued, now>>

\* the merge saved before the ownership check
mutant_CatsUpdate(header, id, dto) ==
    LET a == Auth(header, USER) IN
    /\ req' = Request("cats.update", header, id, "", "")
    /\ IF a.status # OK
       THEN /\ resp' = Response(a.status, a.user, {})
            /\ UNCHANGED cats
       ELSE IF findOneBy(cats, id) = {}
       THEN /\ resp' = Response(NotFound, a.user, {})
            /\ UNCHANGED cats
       ELSE /\ cats' = [cats EXCEPT ![id] = merge(cats[id], dto)]
            /\ resp' = IF ~validateOwnership(cats[id], a.user)
                       THEN Response(Unauthorized, a.user, {})
                       ELSE Response(OK, a.user, {id})
    /\ UNCHANGED <<users, breeds, issued, now>>

\* PATCH /cats/:id, @Auth(Role.USER), owner or ADMIN
CatsUpdate(header, id, dto) ==
    LET a == Auth(header, USER) IN
    /\ req' = Request("cats.update", header, id, "", "")
    /\ IF a.status # OK
       THEN /\ resp' = Response(a.status, a.user, {})
            /\ UNCHANGED cats
       ELSE IF findOneBy(cats, id) = {}
       THEN /\ resp' = Response(NotFound, a.user, {})
            /\ UNCHANGED cats
       ELSE IF ~validateOwnership(cats[id], a.user)
       THEN /\ resp' = Response(Unauthorized, a.user, {})
            /\ UNCHANGED cats
       ELSE /\ cats' = [cats EXCEPT ![id] = merge(cats[id], dto)]
            /\ resp' = Response(OK, a.user, {id})
    /\ UNCHANGED <<users, breeds, issued, now>>

\* DELETE /cats/:id, @Auth(Role.USER), owner or ADMIN
CatsRemove(header, id) ==
    LET a == Auth(header, USER) IN
    /\ req' = Request("cats.remove", header, id, "", "")
    /\ IF a.status # OK
       THEN /\ resp' = Response(a.status, a.user, {})
            /\ UNCHANGED cats
       ELSE IF findOneBy(cats, id) = {}
       THEN /\ resp' = Response(NotFound, a.user, {})
            /\ UNCHANGED cats
       ELSE IF ~validateOwnership(cats[id], a.user)
       THEN /\ resp' = Response(Unauthorized, a.user, {})
            /\ UNCHANGED cats
       ELSE /\ cats' = softDelete(cats, id, now)
            /\ resp' = Response(OK, a.user, {id})
    /\ UNCHANGED <<users, breeds, issued, now>>

\* ----------------------------------------------------------------- breeds
\* POST /breeds, @Auth(Role.ADMIN)
BreedsCreate(header, name) ==
    LET a == Auth(header, ADMIN) IN
    /\ req' = Request("breeds.create", header, 0, "", "")
    /\ resp' = Response(a.status, a.user, {})
    /\ breeds' = IF a.status = OK THEN breeds \cup {name} ELSE breeds
    /\ UNCHANGED <<users, cats, issued, now>>

\* GET /breeds, @Auth(Role.ADMIN)
BreedsFindAll(header) ==
    LET a == Auth(header, ADMIN) IN
    /\ req' = Request("breeds.findAll", header, 0, "", "")
    /\ resp' = Response(a.status, a.user, IF a.status = OK THEN breeds ELSE {})
    /\ UNCHANGED <<users, cats, breeds, issued, now>>

\* ------------------------------------------------------------------ users
\* DELETE /users/:id, no guard
UsersRemove(email) ==
    /\ req' = Request("users.remove", NoHeader, 0, email, "")
    /\ IF findOneByEmail(email) = {}
       THEN /\ resp' = Response(NotFound, NoUser, {})
            /\ UNCHANGED users
       ELSE /\ users' = softDelete(users, email, now)
            /\ resp' = Response(OK, NoUser, {})
    /\ UNCHANGED <<cats, breeds, issued, now>>

\* -------------------------------------------------------------------- time
Tick ==
    /\ now < MaxTicks * TickStep
    /\ now' = now + TickStep
    /\ UNCHANGED <<users, cats, breeds, issued, req, resp>>

\* the requests a client can send
RegisterRequest == \E dto \in RegisterDtos : Register(dto)
LoginRequest == \E dto \in LoginDtos : Login(dto)
ProfileRequest == \E header \in Headers : Profile(header)
UsersRemoveRequest == \E email \in Emails : UsersRemove(email)
CatsCreateRequest ==
    \E header \in Headers, dto \in CreateCatDtos : CatsCreate(header, dto)
CatsFindAllRequest == \E header \in Headers : CatsFindAll(header)
CatsFindOneRequest == \E header \in Headers, id \in CatIds : CatsFindOne(header, id)
CatsUpdateRequest ==
    \E header \in Headers, id \in CatIds, dto \in UpdateCatDtos :
        CatsUpdate(header, id, dto)
CatsRemoveRequest == \E header \in Headers, id \in CatIds : CatsRemove(header, id)
BreedsCreateRequest ==
    \E header \in Headers, name \in BreedNames : BreedsCreate(header, name)
BreedsFindAllRequest == \E header \in Headers : BreedsFindAll(header)

CatsNext ==
    \/ CatsCreateRequest
    \/ CatsFindAllRequest
    \/ CatsFindOneRequest
    \/ CatsUpdateRequest
    \/ CatsRemoveRequest
    \/ BreedsCreateRequest
    \/ BreedsFindAllRequest

Next ==
    \/ RegisterRequest
    \/ LoginRequest
    \/ ProfileRequest
    \/ UsersRemoveRequest
    \/ CatsNext
    \/ Tick

Spec == Init /\ [][Next]_vars

\* the authentication endpoints as time passes, with one user registering
AuthNext ==
    \/ Register(RegisterA)
    \/ LoginRequest
    \/ ProfileRequest
    \/ UsersRemoveRequest
    \/ Tick

AuthSpec == Init /\ [][AuthNext]_vars

\* the resource endpoints within the validity window of the tokens
ResourceNext ==
    \/ RegisterRequest
    \/ LoginRequest
    \/ CatsNext

CatsSpec == Init /\ [][ResourceNext]_vars

\* ================================================================ properties
GuardedOps ==
    {"auth.profile", "cats.create", "cats.findAll", "cats.findOne",
     "cats.update", "cats.remove", "breeds.create", "breeds.findAll"}
BreedsOps == {"breeds.create", "breeds.findAll"}
OwnedOps == {"cats.update", "cats.remove"}
Deleted(rows, k) == k \in DOMAIN rows /\ rows[k].deletedAt # NULL
\* the request recorded in req carried the issued token t
Presented(t) == req.op \in GuardedOps /\ req.header = Bearer(t)
\* the ownership check was reached: the guards passed and the cat was found
OwnershipChecked ==
    /\ req.op \in OwnedOps
    /\ resp.user # NoUser
    /\ resp.status # NotFound
    /\ req.id \in DOMAIN cats

\* C1: on update and soft-delete of a cat the ownership check passes iff the
\* principal is ADMIN or its email is the cat's owner email, and every other
\* combination fails with Forbidden.
C1_OwnershipForbidden ==
    OwnershipChecked =>
        LET pass == \/ resp.user.role = ADMIN
                    \/ resp.user.email = cats[req.id].userEmail
        IN  /\ pass => resp.status = OK
            /\ ~pass => resp.status = Forbidden

\* C2: the role check passes iff the principal's role is the required role or
\* ADMIN: an ADMIN passes every requirement, a USER passes a USER requirement
\* and is rejected with Forbidden on an ADMIN requirement (every /breeds
\* endpoint).
C2_RolePolicy ==
    (req.op \in GuardedOps /\ resp.user # NoUser) =>
        LET required == IF req.op \in BreedsOps THEN ADMIN ELSE USER
            pass == resp.user.role = required \/ resp.user.role = ADMIN
        IN  /\ resp.user.role \in Role
            /\ (resp.status = Forbidden) <=> ~pass
            /\ resp.user.role = ADMIN => resp.status # Forbidden
            /\ (resp.user.role = USER /\ required = USER) => resp.status # Forbidden
            /\ (resp.user.role = USER /\ required = ADMIN) => resp.status = Forbidden

C2_Witness ==
    /\ req.op \in BreedsOps
    /\ resp.user = [email |-> EmailA, role |-> USER]
    /\ resp.status = Forbidden

C4_DeletedUserRejected ==
    \A t \in tokens :
        Deleted(users, t.payload.email) =>
            /\ ~AuthGuard(Bearer(t)).ok
            /\ Presented(t) => (resp.status = Unauthorized /\ resp.user = NoUser)

C4_Witness ==
    \E t \in tokens :
        /\ Deleted(users, t.payload.email)
        /\ now > users[t.payload.email].deletedAt
        /\ now < t.payload.exp
        /\ Presented(t)
        /\ resp.status = Unauthorized

\* C5: a token presented at or after the end of its validity window (1 day
\* from issue) fails verification: the Access Guard rejects the request as
\* Unauthenticated (401) and yields no Principal.
C5_ExpiredRejected ==
    [][\A t \in tokens :
          (now' = now /\ req'.op \in GuardedOps /\ req'.header = Bearer(t)
              /\ now >= t.payload.iat + ExpiresIn)
          => (resp'.status = Unauthorized /\ resp'.user = NoUser)]_vars

C5_Witness ==
    \E t \in tokens :
        /\ now >= t.payload.iat + ExpiresIn
        /\ ~Deleted(users, t.payload.email)
        /\ Presented(t)
        /\ resp.status = Unauthorized

\* C6: verifying the token issued for a principal within its validity window
\* returns exactly that principal (same email, same role).
C6_RoundTrip ==
    \A e \in issued :
        (e.token.payload.iat <= now /\ now < e.token.payload.iat + ExpiresIn) =>
            LET v == verifyAsync(e.token, now) IN
            /\ v.ok
            /\ v.payload.email = e.user.email
            /\ v.payload.role = e.user.role
            /\ (Presented(e.token) /\ resp.status = OK) => resp.user = e.user

C6_Witness ==
    \E e \in issued :
        /\ e.user.role = ADMIN
        /\ e.token.payload.iat < now
        /\ now < e.token.payload.iat + ExpiresIn
        /\ Presented(e.token)
        /\ resp.status = OK
        /\ resp.user = e.user

C7_RowsKept ==
    /\ \A id \in DOMAIN cats : id \in DOMAIN cats'
    /\ \A id \in DOMAIN cats :
          cats[id].deletedAt # NULL => cats'[id] = cats[id]
    /\ (req'.op = "cats.remove" /\ resp'.status = OK) =>
          Deleted(cats', req'.id)
C7_NotListed ==
    /\ (req.op = "cats.findAll" /\ resp.status = OK) =>
          \A id \in DOMAIN cats : Deleted(cats, id) => id \notin resp.body
    /\ (req.op = "cats.findOne" /\ resp.user # NoUser /\ Deleted(cats, req.id)) =>
          resp.status = NotFound

\* C7: a soft-deleted cat is never physically removed (its row stays with the
\* deletion marker set), never appears in a list result, and get-by-id on it
\* fails with NotFound.
C7_SoftDelete == [][C7_RowsKept]_vars /\ []C7_NotListed

C7_Witness ==
    /\ req.op = "cats.findOne"
    /\ resp.user # NoUser
    /\ Deleted(cats, req.id)
    /\ resp.status = NotFound

\* C8: a cat created by an authenticated principal is owned by that
\* principal's email; a PATCH on it by another USER fails with Forbidden and
\* the same PATCH by an ADMIN succeeds.
C8_Scenario ==
    /\ (req.op = "cats.create" /\ resp.status = OK) =>
          \A id \in resp.body : cats[id].userEmail = resp.user.email
    /\ (req.op = "cats.update" /\ OwnershipChecked
           /\ cats[req.id].userEmail = EmailA) =>
          /\ resp.user = [email |-> EmailB, role |-> USER]
                => resp.status = Forbidden
          /\ resp.user.role = ADMIN => resp.status = OK

\* C9: login fails with InvalidCredentials when no non-soft-deleted user has
\* the email or the password does not match the stored hash, otherwise it
\* returns the {email, role} of that user; it never changes the store.
C9_Login ==
    [][(now' = now /\ req'.op = "auth.login") =>
          LET email == req'.email
              active == email \in DOMAIN users /\ users[email].deletedAt = NULL
              match == active /\ users[email].password = hash(req'.password)
          IN  /\ ~match => (resp'.status = InvalidCredentials /\ resp'.user = NoUser)
              /\ match => /\ resp'.status = OK
                          /\ resp'.user = [email |-> email, role |-> users[email].role]
              /\ UNCHANGED <<users, cats, breeds>>]_vars

C9_Witness ==
    /\ req.op = "auth.login"
    /\ Deleted(users, req.email)
    /\ users[req.email].password = hash(req.password)
    /\ resp.status = InvalidCredentials

\* C10: an update or soft-delete of a cat rejected by the Access Guard, the
\* Role Policy or the Ownership Policy changes no field of the target, of its
\* owner email or deletion marker, nor any other stored entity.
C10_RejectedChangesNothing ==
    [][(req'.op \in OwnedOps /\ resp'.status \in {Unauthorized, Forbidden})
          => UNCHANGED <<users, cats, breeds>>]_vars

C10_Witness ==
    /\ OwnershipChecked
    /\ resp.status = Unauthorized
    /\ resp.user = [email |-> EmailB, role |-> USER]
    /\ cats[req.id].userEmail = EmailA
====
